---- MODULE Spec2Model ----
(***************************************************************************)
(* Date-bucketed unread view and range-scoped "mark as read" of midiflux.  *)
(*                                                                         *)
(* Time is counted in whole hours relative to the instant at which the     *)
(* observation starts (clock = 0); publication dates are integers.         *)
(* A *time.Time argument is modelled as a set: {} is nil, {t} points to t. *)
(***************************************************************************)
EXTENDS Integers, Sequences, FiniteSets

VARIABLES entries, clock, prevMark, mark, disp, cal

vars == <<entries, clock, prevMark, mark, disp, cal>>

(***************************************************************************)
(* Bounds of the model.                                                    *)
(***************************************************************************)
NumEntries == 2
MaxTicks == 1
MaxCalDay == 69

EntryIDs == 1..NumEntries

\* Publication dates the store is populated with: the four rolling
\* boundaries of clock 0 (each lies strictly inside the next older bucket
\* one hour later) and an entry published at clock 0.
PubTimes == {-720, -168, -48, -24, 0}

Nil == {}
Ptr(t) == {t}

NoSection == ""
ConcreteSections == {"today", "last2d", "last7d", "last30d", "earlier"}
Sections == ConcreteSections \cup {"all", "bogus", NoSection}
Buckets == <<"today", "last2d", "last7d", "last30d", "earlier">>
Directions == {"asc", "desc"}

\* user.EntryOrder: the entry column the user's lists are sorted by first.
EntryOrders == {"published_at", "created_at"}

\* Creation dates the store is populated with: every entry was created by
\* the feed refresh of the hour before clock 0.
CreatedTimes == {-1}

\* request.QueryStringParam: the default replaces an absent (empty) value.
QueryStringParam(value, defaultValue) ==
    IF value = NoSection THEN defaultValue ELSE value

(***************************************************************************)
(* The entry store (storage collaborator).                                 *)
(***************************************************************************)
\* AfterPublishedDate / BeforePublishedDate: the half-open interval
\* [after, before) with an absent bound meaning unbounded.
InDateRange(t, after, before) ==
    /\ \A a \in after : t >= a
    /\ \A b \in before : t < b

\* WithStatus(unread), WithGloballyVisible, optional date bounds.
QueryIDs(store, after, before) ==
    {i \in DOMAIN store :
        /\ store[i].status = "unread"
        /\ store[i].visible
        /\ InDateRange(store[i].published_at, after, before)}

CountEntries(store, after, before) == Cardinality(QueryIDs(store, after, before))

\* WithSorting(order, dir) then WithSorting(id, dir).
Precedes(store, order, dir, i, j) ==
    LET pi == store[i][order]
        pj == store[j][order]
    IN IF dir = "asc"
       THEN pi < pj \/ (pi = pj /\ i < j)
       ELSE pi > pj \/ (pi = pj /\ i > j)

RECURSIVE SortIDs(_, _, _, _)
SortIDs(store, order, dir, ids) ==
    IF ids = {} THEN <<>>
    ELSE LET first == CHOOSE i \in ids :
                         \A j \in ids \ {i} : Precedes(store, order, dir, i, j)
         IN <<first>> \o SortIDs(store, order, dir, ids \ {first})

GetEntries(store, after, before, order, dir) ==
    SortIDs(store, order, dir, QueryIDs(store, after, before))

MarkEntriesAsReadInDateRange(store, after, before) ==
    [i \in DOMAIN store |->
        IF store[i].status = "unread"
           /\ InDateRange(store[i].published_at, after, before)
        THEN [store[i] EXCEPT !.status = "read"]
        ELSE store[i]]

MarkGloballyVisibleFeedsAsRead(store) ==
    [i \in DOMAIN store |->
        IF store[i].status = "unread" /\ store[i].visible
        THEN [store[i] EXCEPT !.status = "read"]
        ELSE store[i]]

UnreadVisible(store) ==
    {i \in DOMAIN store : store[i].status = "unread" /\ store[i].visible}

(***************************************************************************)
(* showDateEntriesPage (rolling windows).                                  *)
(***************************************************************************)
\* ShowBoundaries with the 7-day offset written without its factor 7.
ShowBoundariesLost7(now) ==
    [todayStart   |-> now - 24,
     last2dStart  |-> now - 48,
     last7dStart  |-> now - 24,
     last30dStart |-> now - 30 * 24]

ShowBoundaries(now) ==
    [todayStart   |-> now - 24,
     last2dStart  |-> now - 48,
     last7dStart  |-> now - 7 * 24,
     last30dStart |-> now - 30 * 24]

Call(op, bucket, after, before) ==
    [op |-> op, bucket |-> bucket, after |-> after, before |-> before]

\* CountCalls with the last7d count issued with the arguments of last30d.
CountCallsCopied(b) ==
    << Call("count", "today",   Ptr(b.todayStart),   Nil),
       Call("count", "last2d",  Ptr(b.last2dStart),  Ptr(b.todayStart)),
       Call("count", "last7d",  Ptr(b.last30dStart), Ptr(b.last7dStart)),
       Call("count", "last30d", Ptr(b.last30dStart), Ptr(b.last7dStart)),
       Call("count", "earlier", Nil,                 Ptr(b.last30dStart)) >>

\* The five countForDateRange calls, in program order.
CountCalls(b) ==
    << Call("count", "today",   Ptr(b.todayStart),   Nil),
       Call("count", "last2d",  Ptr(b.last2dStart),  Ptr(b.todayStart)),
       Call("count", "last7d",  Ptr(b.last7dStart),  Ptr(b.last2dStart)),
       Call("count", "last30d", Ptr(b.last30dStart), Ptr(b.last7dStart)),
       Call("count", "earlier", Nil,                 Ptr(b.last30dStart)) >>

FetchAll(b) ==
    << Call("fetch", "today",   Ptr(b.todayStart),   Nil),
       Call("fetch", "last2d",  Ptr(b.last2dStart),  Ptr(b.todayStart)),
       Call("fetch", "last7d",  Ptr(b.last7dStart),  Ptr(b.last2dStart)),
       Call("fetch", "last30d", Ptr(b.last30dStart), Ptr(b.last7dStart)),
       Call("fetch", "earlier", Nil,                 Ptr(b.last30dStart)) >>

\* FetchCalls with the upper bound of every bounded fetch left out.
FetchCallsNoBefore(section, b) ==
    CASE section = "today" ->
           << Call("fetch", "today", Ptr(b.todayStart), Nil) >>
      [] section = "last2d" ->
           << Call("fetch", "last2d", Ptr(b.last2dStart), Nil) >>
      [] section = "last7d" ->
           << Call("fetch", "last7d", Ptr(b.last7dStart), Nil) >>
      [] section = "last30d" ->
           << Call("fetch", "last30d", Ptr(b.last30dStart), Nil) >>
      [] section = "earlier" ->
           << Call("fetch", "earlier", Nil, Ptr(b.last30dStart)) >>
      [] OTHER ->
           << Call("fetch", "today",   Ptr(b.todayStart),   Nil),
              Call("fetch", "last2d",  Ptr(b.last2dStart),  Nil),
              Call("fetch", "last7d",  Ptr(b.last7dStart),  Nil),
              Call("fetch", "last30d", Ptr(b.last30dStart), Nil),
              Call("fetch", "earlier", Nil,                 Ptr(b.last30dStart)) >>

\* FetchCalls whose aggregate branch is taken for "all" only.
FetchCallsNoDefault(section, b) ==
    CASE section = "today" ->
           << Call("fetch", "today", Ptr(b.todayStart), Nil) >>
      [] section = "last2d" ->
           << Call("fetch", "last2d", Ptr(b.last2dStart), Ptr(b.todayStart)) >>
      [] section = "last7d" ->
           << Call("fetch", "last7d", Ptr(b.last7dStart), Ptr(b.last2dStart)) >>
      [] section = "last30d" ->
           << Call("fetch", "last30d", Ptr(b.last30dStart), Ptr(b.last7dStart)) >>
      [] section = "earlier" ->
           << Call("fetch", "earlier", Nil, Ptr(b.last30dStart)) >>
      [] section = "all" -> FetchAll(b)
      [] OTHER -> <<>>

\* FetchCalls whose "today" case runs on into the aggregate branch.
FetchCallsTodayAll(section, b) ==
    CASE section = "last2d" ->
           << Call("fetch", "last2d", Ptr(b.last2dStart), Ptr(b.todayStart)) >>
      [] section = "last7d" ->
           << Call("fetch", "last7d", Ptr(b.last7dStart), Ptr(b.last2dStart)) >>
      [] section = "last30d" ->
           << Call("fetch", "last30d", Ptr(b.last30dStart), Ptr(b.last7dStart)) >>
      [] section = "earlier" ->
           << Call("fetch", "earlier", Nil, Ptr(b.last30dStart)) >>
      [] OTHER -> FetchAll(b)

\* The fetchForDateRange calls selected by the switch on section.
FetchCalls(section, b) ==
    CASE section = "today" ->
           << Call("fetch", "today", Ptr(b.todayStart), Nil) >>
      [] section = "last2d" ->
           << Call("fetch", "last2d", Ptr(b.last2dStart), Ptr(b.todayStart)) >>
      [] section = "last7d" ->
           << Call("fetch", "last7d", Ptr(b.last7dStart), Ptr(b.last2dStart)) >>
      [] section = "last30d" ->
           << Call("fetch", "last30d", Ptr(b.last30dStart), Ptr(b.last7dStart)) >>
      [] section = "earlier" ->
           << Call("fetch", "earlier", Nil, Ptr(b.last30dStart)) >>
      [] OTHER ->
           << Call("fetch", "today",   Ptr(b.todayStart),   Nil),
              Call("fetch", "last2d",  Ptr(b.last2dStart),  Ptr(b.todayStart)),
              Call("fetch", "last7d",  Ptr(b.last7dStart),  Ptr(b.last2dStart)),
              Call("fetch", "last30d", Ptr(b.last30dStart), Ptr(b.last7dStart)),
              Call("fetch", "earlier", Nil,                 Ptr(b.last30dStart)) >>

\* DisplayCalls with the switch on section executed a second time.
DisplayCallsFetchTwice(section, now) ==
    CountCalls(ShowBoundaries(now)) \o FetchCalls(section, ShowBoundaries(now))
        \o FetchCalls(section, ShowBoundaries(now))

DisplayCalls(section, now) ==
    CountCalls(ShowBoundaries(now)) \o FetchCalls(section, ShowBoundaries(now))

BucketSet == {Buckets[k] : k \in 1..Len(Buckets)}

RECURSIVE SumCounts(_, _)
SumCounts(counts, k) ==
    IF k = 0 THEN 0 ELSE counts[Buckets[k]] + SumCounts(counts, k - 1)

\* CountUnread with countToday added a second time in place of countEarlier.
CountUnreadTodayTwice(counts) ==
    counts["today"] + counts["last2d"] + counts["last7d"] + counts["last30d"]
        + counts["today"]

\* countUnread := countToday + countLast2d + countLast7d + countLast30d + countEarlier
CountUnread(counts) == SumCounts(counts, Len(Buckets))

\* One CountEntries or GetEntries call and the local it is assigned to.
ApplyCall(store, order, dir, view, c) ==
    IF c.op = "count"
    THEN [view EXCEPT !.counts[c.bucket] = CountEntries(store, c.after, c.before)]
    ELSE [view EXCEPT !.lists[c.bucket] = GetEntries(store, c.after, c.before,
                                                     order, dir)]

EmptyView ==
    [counts |-> [b \in BucketSet |-> 0], lists |-> [b \in BucketSet |-> <<>>]]

DispIdle ==
    [pc |-> "idle", section |-> NoSection, now |-> 0,
     order |-> "published_at", dir |-> "asc",
     calls |-> <<>>, view |-> EmptyView, countUnread |-> 0, err |-> "none"]

\* UserByID (with the user's EntryOrder and EntryDirection), the section
\* parameter and the reference instant.
DisplayStart(section, order, dir, userOK) ==
    /\ disp.pc = "idle"
    /\ disp' = IF userOK
               THEN [DispIdle EXCEPT !.pc = "running",
                                     !.section = QueryStringParam(section, "today"),
                                     !.now = clock,
                                     !.order = order,
                                     !.dir = dir]
               ELSE [DispIdle EXCEPT !.pc = "error", !.err = "user"]
    /\ UNCHANGED <<entries, clock, prevMark, mark, cal>>

\* DisplayCall without the return after html.ServerError: the request goes
\* on with the next call.
DisplayCallNoReturn(callOK) ==
    /\ disp.pc = "running"
    /\ LET plan == DisplayCalls(disp.section, disp.now)
           c == plan[Len(disp.calls) + 1]
           issued == Append(disp.calls, c)
           view == IF callOK THEN ApplyCall(entries, disp.order, disp.dir, disp.view, c)
                   ELSE disp.view
           err == IF callOK THEN disp.err ELSE "call"
       IN disp' = IF Len(issued) = Len(plan)
                  THEN [disp EXCEPT !.pc = "ok", !.calls = issued, !.view = view,
                                    !.err = err,
                                    !.countUnread = CountUnread(view.counts)]
                  ELSE [disp EXCEPT !.calls = issued, !.view = view, !.err = err]
    /\ UNCHANGED <<entries, clock, prevMark, mark, cal>>

\* The next CountEntries or GetEntries call of the request.  A failing call
\* ends the request with html.ServerError; after the last call the total is
\* computed and the view is rendered.
DisplayCall(callOK) ==
    /\ disp.pc = "running"
    /\ LET plan == DisplayCalls(disp.section, disp.now)
           c == plan[Len(disp.calls) + 1]
           issued == Append(disp.calls, c)
           view == ApplyCall(entries, disp.order, disp.dir, disp.view, c)
       IN disp' = IF ~callOK
                  THEN [DispIdle EXCEPT !.pc = "error",
                                        !.err = "call",
                                        !.section = disp.section,
                                        !.now = disp.now,
                                        !.calls = issued]
                  ELSE IF Len(issued) = Len(plan)
                  THEN [disp EXCEPT !.pc = "ok", !.calls = issued, !.view = view,
                                    !.countUnread = CountUnread(view.counts)]
                  ELSE [disp EXCEPT !.calls = issued, !.view = view]
    /\ UNCHANGED <<entries, clock, prevMark, mark, cal>>

\* The response has been written; the request's locals are discarded.
DisplayEnd ==
    /\ disp.pc \in {"ok", "error"}
    /\ disp' = DispIdle
    /\ UNCHANGED <<entries, clock, prevMark, mark, cal>>

(***************************************************************************)
(* markDateEntriesAsRead.                                                  *)
(***************************************************************************)
\* MarkBoundaries with the 2-day boundary three days back.
MarkBoundariesThreeDays(now) ==
    [todayStart   |-> now - 24,
     last2dStart  |-> now - 3 * 24,
     last7dStart  |-> now - 7 * 24,
     last30dStart |-> now - 30 * 24]

\* MarkBoundaries with todayStart two days back.
MarkBoundariesToday48(now) ==
    [todayStart   |-> now - 48,
     last2dStart  |-> now - 48,
     last7dStart  |-> now - 7 * 24,
     last30dStart |-> now - 30 * 24]

MarkBoundaries(now) ==
    [todayStart   |-> now - 24,
     last2dStart  |-> now - 48,
     last7dStart  |-> now - 7 * 24,
     last30dStart |-> now - 30 * 24]

MarkCallRest(section, b) ==
    CASE section = "last2d" ->
           [prim |-> "range", after |-> Ptr(b.last2dStart), before |-> Ptr(b.todayStart)]
      [] section = "last7d" ->
           [prim |-> "range", after |-> Ptr(b.last7dStart), before |-> Ptr(b.last2dStart)]
      [] section = "last30d" ->
           [prim |-> "range", after |-> Ptr(b.last30dStart), before |-> Ptr(b.last7dStart)]
      [] section = "earlier" ->
           [prim |-> "range", after |-> Nil, before |-> Ptr(b.last30dStart)]
      [] section = "all" ->
           [prim |-> "global", after |-> Nil, before |-> Nil]
      [] OTHER ->
           [prim |-> "range", after |-> Nil, before |-> Nil]

\* MarkCall whose "today" case carries the bounds of the "last2d" case.
MarkCallTodayCopied(section, b) ==
    IF section = "today"
    THEN [prim |-> "range", after |-> Ptr(b.last2dStart), before |-> Ptr(b.todayStart)]
    ELSE MarkCallRest(section, b)

\* MarkCall whose "today" case sets beforeDate instead of afterDate.
MarkCallTodaySwapped(section, b) ==
    IF section = "today"
    THEN [prim |-> "range", after |-> Nil, before |-> Ptr(b.todayStart)]
    ELSE MarkCallRest(section, b)

\* MarkCall whose "last2d" case leaves beforeDate nil.
MarkCallLast2dOpen(section, b) ==
    CASE section = "today" ->
           [prim |-> "range", after |-> Ptr(b.todayStart), before |-> Nil]
      [] section = "last2d" ->
           [prim |-> "range", after |-> Ptr(b.last2dStart), before |-> Nil]
      [] OTHER -> MarkCallRest(section, b)

\* MarkCall without the "all" case.
MarkCallNoAll(section, b) ==
    IF section = "all"
    THEN [prim |-> "range", after |-> Nil, before |-> Nil]
    ELSE MarkCallRest(section, b)

\* MarkCall whose "all" case is handled as "today".
MarkCallAllAsToday(section, b) ==
    IF section \in {"today", "all"}
    THEN [prim |-> "range", after |-> Ptr(b.todayStart), before |-> Nil]
    ELSE MarkCallRest(section, b)

\* The switch on section: the store primitive the handler goes on to invoke
\* and its (afterDate, beforeDate) arguments.
MarkCall(section, b) ==
    CASE section = "today" ->
           [prim |-> "range", after |-> Ptr(b.todayStart), before |-> Nil]
      [] section = "last2d" ->
           [prim |-> "range", after |-> Ptr(b.last2dStart), before |-> Ptr(b.todayStart)]
      [] section = "last7d" ->
           [prim |-> "range", after |-> Ptr(b.last7dStart), before |-> Ptr(b.last2dStart)]
      [] section = "last30d" ->
           [prim |-> "range", after |-> Ptr(b.last30dStart), before |-> Ptr(b.last7dStart)]
      [] section = "earlier" ->
           [prim |-> "range", after |-> Nil, before |-> Ptr(b.last30dStart)]
      [] section = "all" ->
           [prim |-> "global", after |-> Nil, before |-> Nil]
      [] OTHER ->
           [prim |-> "range", after |-> Nil, before |-> Nil]

\* The section parameter read with the default of the page handler.
MarkSectionDefaultToday(param) == QueryStringParam(param, "today")

\* section := request.QueryStringParam(r, "section", "all")
MarkSection(param) == QueryStringParam(param, "all")

NoMark ==
    [section |-> "none", now |-> 0, prim |-> "none", after |-> Nil, before |-> Nil]

MarkIdle ==
    [pc |-> "idle", param |-> NoSection, call |-> NoMark, resp |-> "none",
     flipped |-> {}, prev |-> NoMark, invoked |-> <<>>, failed |-> FALSE]

\* The store primitive selected by the handler.
ApplyMark(store, c) ==
    IF c.prim = "global"
    THEN MarkGloballyVisibleFeedsAsRead(store)
    ELSE MarkEntriesAsReadInDateRange(store, c.after, c.before)

\* The handler up to its store call: user lookup, section, reference instant,
\* boundaries and the switch.  mark.call keeps the primitive selected and
\* its arguments.
markDateEntriesAsRead(param, userOK) ==
    /\ mark.pc = "idle"
    /\ LET section == MarkSection(param)
           m == MarkCall(section, MarkBoundaries(clock))
           c == [section |-> section, now |-> clock, prim |-> m.prim,
                 after |-> m.after, before |-> m.before]
       IN mark' = IF userOK
                  THEN [MarkIdle EXCEPT !.pc = "started", !.param = param,
                                        !.call = c]
                  ELSE [MarkIdle EXCEPT !.pc = "done", !.param = param,
                                        !.resp = "error"]
    /\ UNCHANGED <<entries, clock, prevMark, disp, cal>>

\* The single store call of the handler and its response.  mark.flipped
\* records the entries whose status the call changed, mark.prev the
\* preceding successful call, mark.invoked the store primitives called and
\* mark.failed whether the primitive returned an error.
MarkStoreCall(storeOK) ==
    /\ mark.pc = "started"
    /\ LET after == IF storeOK THEN ApplyMark(entries, mark.call) ELSE entries
       IN /\ entries' = after
          /\ mark' = [mark EXCEPT !.pc = "done",
                                  !.resp = IF storeOK THEN "ok" ELSE "error",
                                  !.flipped = {i \in EntryIDs :
                                      entries[i].status # after[i].status},
                                  !.prev = prevMark,
                                  !.invoked = <<mark.call.prim>>,
                                  !.failed = ~storeOK]
          /\ prevMark' = IF storeOK THEN mark.call ELSE prevMark
    /\ UNCHANGED <<clock, disp, cal>>

\* The JSON response has been written.
MarkEnd ==
    /\ mark.pc = "done"
    /\ mark' = MarkIdle
    /\ UNCHANGED <<entries, clock, prevMark, disp, cal>>

\* Time passes.
Tick ==
    /\ clock < MaxTicks
    /\ clock' = clock + 1
    /\ UNCHANGED <<entries, prevMark, mark, disp, cal>>

(***************************************************************************)
(* showDateEntriesPage (calendar-aligned boundaries).  The reference       *)
(* instant is hour `hour` of day `day`, days counted from 2024-01-01 in    *)
(* the user's location; a location without clock changes is assumed, so a  *)
(* calendar day is 24 hours.                                               *)
(***************************************************************************)
\* Lengths of the months January..April 2024.
CalDaysInMonth == <<31, 29, 31, 30>>

\* time.Date(now.Year(), now.Month(), 1, ...): the first day of day's month.
RECURSIVE CalMonthStartDay(_, _, _)
CalMonthStartDay(day, m, first) ==
    IF m = Len(CalDaysInMonth) \/ day < first + CalDaysInMonth[m]
    THEN first
    ELSE CalMonthStartDay(day, m + 1, first + CalDaysInMonth[m])

\* time.Weekday: Sunday = 0; 2024-01-01 is a Monday.
Weekday(day) == (day + 1) % 7

CalBoundaries(now) ==
    LET today == now \div 24
        todayStart == today * 24
    IN [todayStart     |-> todayStart,
        yesterdayStart |-> todayStart - 24,
        weekStart      |-> todayStart - 24 * Weekday(today),
        monthStart     |-> 24 * CalMonthStartDay(today, 1, 0)]

\* The five countForDateRange calls of the calendar-aligned page.
CalCountCalls(b) ==
    << Call("count", "today",     Ptr(b.todayStart),     Nil),
       Call("count", "yesterday", Ptr(b.yesterdayStart), Ptr(b.todayStart)),
       Call("count", "week",      Ptr(b.weekStart),      Ptr(b.yesterdayStart)),
       Call("count", "month",     Ptr(b.monthStart),     Ptr(b.weekStart)),
       Call("count", "earlier",   Nil,                   Ptr(b.monthStart)) >>

\* The fetchForDateRange calls selected by the switch on section.
CalFetchCalls(section, b) ==
    CASE section = "today" ->
           << Call("fetch", "today", Ptr(b.todayStart), Nil) >>
      [] section = "yesterday" ->
           << Call("fetch", "yesterday", Ptr(b.yesterdayStart), Ptr(b.todayStart)) >>
      [] section = "week" ->
           << Call("fetch", "week", Ptr(b.weekStart), Ptr(b.yesterdayStart)) >>
      [] section = "month" ->
           << Call("fetch", "month", Ptr(b.monthStart), Ptr(b.weekStart)) >>
      [] section = "earlier" ->
           << Call("fetch", "earlier", Nil, Ptr(b.monthStart)) >>
      [] OTHER ->
           << Call("fetch", "today",     Ptr(b.todayStart),     Nil),
              Call("fetch", "yesterday", Ptr(b.yesterdayStart), Ptr(b.todayStart)),
              Call("fetch", "week",      Ptr(b.weekStart),      Ptr(b.yesterdayStart)),
              Call("fetch", "month",     Ptr(b.monthStart),     Ptr(b.weekStart)),
              Call("fetch", "earlier",   Nil,                   Ptr(b.monthStart)) >>

CalDisplayCalls(section, now) ==
    CalCountCalls(CalBoundaries(now)) \o CalFetchCalls(section, CalBoundaries(now))

CalBucketSet == {"today", "yesterday", "week", "month", "earlier"}
CalSections == CalBucketSet \cup {"all", "bogus", NoSection}

\* Hours of the day at which the calendar-aligned page is requested.
CalHours == {0, 23}

\* Publication dates of the store the calendar-aligned page reads:
\* 2023-12-31 00:00 and 2024-01-06 00:00.
CalPubTimes == {-24, 120}

\* countUnread := countToday + countYesterday + countWeek + countMonth + countEarlier
CalCountUnread(counts) ==
    counts["today"] + counts["yesterday"] + counts["week"] + counts["month"]
        + counts["earlier"]

CalEmptyView ==
    [counts |-> [b \in CalBucketSet |-> 0], lists |-> [b \in CalBucketSet |-> <<>>]]

CalIdle ==
    [pc |-> "idle", section |-> NoSection, now |-> 0,
     order |-> "published_at", dir |-> "asc",
     calls |-> <<>>, view |-> CalEmptyView, countUnread |-> 0, err |-> "none"]

\* UserByID (with the user's EntryOrder and EntryDirection), the section
\* parameter, the reference instant.
CalShow(day, hour, section, order, dir, userOK) ==
    /\ cal.pc = "idle"
    /\ cal' = IF userOK
              THEN [CalIdle EXCEPT !.pc = "running",
                                   !.section = QueryStringParam(section, "all"),
                                   !.now = day * 24 + hour,
                                   !.order = order,
                                   !.dir = dir]
              ELSE [CalIdle EXCEPT !.pc = "error", !.err = "user"]
    /\ UNCHANGED <<entries, clock, prevMark, mark, disp>>

\* The next CountEntries or GetEntries call of the request.  A failing call
\* ends the request with html.ServerError; after the last call the total is
\* computed and the view is rendered.
CalCall(callOK) ==
    /\ cal.pc = "running"
    /\ LET plan == CalDisplayCalls(cal.section, cal.now)
           c == plan[Len(cal.calls) + 1]
           issued == Append(cal.calls, c)
           view == ApplyCall(entries, cal.order, cal.dir, cal.view, c)
       IN cal' = IF ~callOK
                 THEN [CalIdle EXCEPT !.pc = "error",
                                      !.err = "call",
                                      !.section = cal.section,
                                      !.now = cal.now,
                                      !.calls = issued]
                 ELSE IF Len(issued) = Len(plan)
                 THEN [cal EXCEPT !.pc = "ok", !.calls = issued, !.view = view,
                                  !.countUnread = CalCountUnread(view.counts)]
                 ELSE [cal EXCEPT !.calls = issued, !.view = view]
    /\ UNCHANGED <<entries, clock, prevMark, mark, disp>>

\* The response has been written; the request's locals are discarded.
CalEnd ==
    /\ cal.pc \in {"ok", "error"}
    /\ cal' = CalIdle
    /\ UNCHANGED <<entries, clock, prevMark, mark, disp>>

Init ==
    /\ entries \in [EntryIDs -> [published_at : PubTimes,
                                 created_at : CreatedTimes,
                                 status : {"unread"},
                                 visible : BOOLEAN]]
    /\ clock = 0
    /\ prevMark = NoMark
    /\ mark = MarkIdle
    /\ disp = DispIdle
    /\ cal = CalIdle

\* Requests handled one after the other; time passes between requests.
Next ==
    \/ /\ mark.pc = "idle"
       /\ disp.pc = "idle"
       /\ \E s \in Sections, o \in EntryOrders, d \in Directions, ok \in BOOLEAN :
             DisplayStart(s, o, d, ok)
    \/ \E ok \in BOOLEAN : DisplayCall(ok)
    \/ DisplayEnd
    \/ /\ disp.pc = "idle"
       /\ mark.pc = "idle"
       /\ \E s \in Sections, ok \in BOOLEAN : markDateEntriesAsRead(s, ok)
    \/ \E ok \in BOOLEAN : MarkStoreCall(ok)
    \/ MarkEnd
    \/ /\ mark.pc = "idle"
       /\ disp.pc = "idle"
       /\ Tick

Spec == Init /\ [][Next]_vars

\* Page requests and one mark-read request of the same user handled
\* concurrently: the steps of the two handlers interleave in any order and
\* time passes at any point, until the mark-read request has answered.
NextRace ==
    \/ /\ mark.pc # "done"
       /\ \E s \in Sections, ok \in BOOLEAN :
             DisplayStart(s, "published_at", "asc", ok)
    \/ \E ok \in BOOLEAN : DisplayCall(ok)
    \/ DisplayEnd
    \/ \E s \in Sections, ok \in BOOLEAN : markDateEntriesAsRead(s, ok)
    \/ \E ok \in BOOLEAN : MarkStoreCall(ok)
    \/ Tick

SpecRace == Init /\ [][NextRace]_vars

\* The calendar-aligned page on its own: every day 0..MaxCalDay.
InitCal ==
    /\ entries \in [EntryIDs -> [published_at : CalPubTimes,
                                 created_at : CreatedTimes,
                                 status : {"unread"},
                                 visible : {TRUE}]]
    /\ clock = 0
    /\ prevMark = NoMark
    /\ mark = MarkIdle
    /\ disp = DispIdle
    /\ cal = CalIdle

NextCal ==
    \/ /\ cal.pc = "idle"
       /\ \E day \in 0..MaxCalDay, hour \in CalHours, s \in CalSections,
             o \in EntryOrders, d \in Directions, ok \in BOOLEAN :
             CalShow(day, hour, s, o, d, ok)
    \/ \E ok \in BOOLEAN : CalCall(ok)
    \/ CalEnd

SpecCal == InitCal /\ [][NextCal]_vars

(***************************************************************************)
(* Properties.                                                             *)
(***************************************************************************)
Range(seq) == {seq[k] : k \in 1..Len(seq)}

Selected(c) == QueryIDs(entries, c.after, c.before)

\* Hours before the reference instant at which the partition is probed:
\* around "now", around each rolling boundary and inside each bucket.
ProbeOffsets == {-1, 0, 1, 12, 23, 24, 25, 36, 47, 48, 49, 100,
                 167, 168, 169, 400, 719, 720, 721, 1000}

\* C1: once the five counts of a rolling-window request have been issued,
\* their intervals are today=[now-24h, oo), last2d=[now-48h, now-24h),
\* last7d=[now-7d, now-48h), last30d=[now-30d, now-7d), earlier=(-oo, now-30d)
\* and every timestamp lies in exactly one of them.
C1_RollingPartition ==
    Len(disp.calls) >= 5 =>
        LET now == disp.now
            claimed == << [after |-> {now - 24},  before |-> {}],
                          [after |-> {now - 48},  before |-> {now - 24}],
                          [after |-> {now - 168}, before |-> {now - 48}],
                          [after |-> {now - 720}, before |-> {now - 168}],
                          [after |-> {},          before |-> {now - 720}] >>
        IN /\ \A k \in 1..5 :
                /\ disp.calls[k].op = "count"
                /\ disp.calls[k].bucket = Buckets[k]
                /\ disp.calls[k].after = claimed[k].after
                /\ disp.calls[k].before = claimed[k].before
           /\ \A h \in ProbeOffsets :
                Cardinality({k \in 1..5 :
                    InDateRange(now - h, disp.calls[k].after,
                                disp.calls[k].before)}) = 1

C1_Witness == disp.pc = "ok" /\ disp.now > 0 /\ Len(disp.calls) >= 5

\* C2: in the calendar-aligned page every timestamp lies in exactly one of
\* today, yesterday, week, month, earlier, for every reference instant.
C2_CalendarPartition ==
    Len(cal.calls) >= 5 =>
        \A d \in (cal.now \div 24 - 40)..(cal.now \div 24 + 1), e \in {-1, 0, 1} :
            Cardinality({k \in 1..5 :
                InDateRange(d * 24 + e, cal.calls[k].after,
                            cal.calls[k].before)}) = 1

\* C3: the rendered countUnread equals the number of unread globally
\* visible entries of the store, counted without a date filter.
C3_CountSum ==
    disp.pc = "ok" =>
        /\ disp.countUnread = Cardinality(UnreadVisible(entries))
        /\ disp.countUnread = CountEntries(entries, Nil, Nil)

C3_Witness ==
    /\ disp.pc = "ok"
    /\ disp.countUnread = 2
    /\ \E b \in BucketSet : disp.view.counts[b] = 1

\* C4: an unread globally visible entry published exactly at now-24h,
\* now-48h, now-7d or now-30d is selected by exactly those count and fetch
\* queries whose after bound is that instant: it is counted and listed in
\* the newer bucket and in no other.
C4_BoundaryNewer ==
    disp.pc = "ok" =>
        \A i \in UnreadVisible(entries) :
            LET pub == entries[i].published_at IN
            pub \in {disp.now - 24, disp.now - 48, disp.now - 7 * 24,
                     disp.now - 30 * 24} =>
                /\ \E k \in 1..Len(disp.calls) :
                      /\ disp.calls[k].op = "count"
                      /\ disp.calls[k].after = {pub}
                      /\ disp.view.counts[disp.calls[k].bucket] >= 1
                /\ \A k \in 1..Len(disp.calls) :
                      LET c == disp.calls[k] IN
                      /\ (i \in Selected(c)) <=> (c.after = {pub})
                      /\ c.op = "count" =>
                            disp.view.counts[c.bucket] = Cardinality(Selected(c))
                      /\ c.op = "fetch" =>
                            ((i \in Range(disp.view.lists[c.bucket]))
                                <=> (c.after = {pub}))

C4_Witness ==
    /\ disp.pc = "ok"
    /\ disp.section = "all"
    /\ \E i \in UnreadVisible(entries) :
          /\ entries[i].published_at = disp.now - 48
          /\ i \in Range(disp.view.lists["last2d"])
          /\ disp.view.counts["last2d"] = 1
          /\ disp.view.counts["last7d"] = 0

\* C5: a mark-read request with an unrecognized selector invokes the global
\* primitive and not the range primitive.
C5_UnrecognizedIsGlobal ==
    (/\ mark.pc = "done"
     /\ mark.call.prim # "none"
     /\ mark.call.section \notin ConcreteSections \cup {"all"})
        => mark.call.prim = "global"

\* C6 as stated: a successful mark-read of a concrete bucket that directly
\* follows a successful mark-read of the same bucket flips no entry.
C6_RepeatAnyBucket ==
    (/\ mark.pc = "done"
     /\ mark.resp = "ok"
     /\ mark.call.section \in ConcreteSections
     /\ mark.prev.section = mark.call.section)
        => mark.flipped = {}

\* C6 amended: the repeated call flips no entry when the bucket is today or
\* when both calls are made at the same reference instant.
C6_RepeatSameInstantOrToday ==
    (/\ mark.pc = "done"
     /\ mark.resp = "ok"
     /\ mark.call.section \in ConcreteSections
     /\ mark.prev.section = mark.call.section
     /\ (mark.call.section = "today" \/ mark.call.now = mark.prev.now))
        => mark.flipped = {}

C6_Witness ==
    /\ mark.pc = "done"
    /\ mark.resp = "ok"
    /\ mark.call.section = "last7d"
    /\ mark.prev.section = "last7d"
    /\ mark.call.now = mark.prev.now
    /\ \E i \in EntryIDs :
          /\ entries[i].status = "read"
          /\ InDateRange(entries[i].published_at, mark.call.after, mark.call.before)

\* C7: a successful mark-read of today that directly follows a successful
\* mark-read of today, at the same or a later reference instant, flips no
\* entry: the store is as the first call left it.
C7_TodayTwice ==
    (/\ mark.pc = "done"
     /\ mark.resp = "ok"
     /\ mark.call.section = "today"
     /\ mark.prev.section = "today"
     /\ mark.prev.now <= mark.call.now)
        => /\ mark.flipped = {}
           /\ entries = MarkEntriesAsReadInDateRange(entries, mark.prev.after,
                                                     mark.prev.before)

C7_Witness ==
    /\ mark.pc = "done"
    /\ mark.resp = "ok"
    /\ mark.call.section = "today"
    /\ mark.prev.section = "today"
    /\ mark.prev.now < mark.call.now
    /\ \E i \in EntryIDs :
          /\ entries[i].status = "read"
          /\ InDateRange(entries[i].published_at, mark.prev.after, mark.prev.before)
          /\ ~InDateRange(entries[i].published_at, mark.call.after, mark.call.before)
    /\ \E i \in EntryIDs : entries[i].status = "unread"

\* C8: at one reference instant the (after, before) pair handed to
\* MarkEntriesAsReadInDateRange for a concrete selector equals the pair of
\* every count and fetch query the rolling page issues for that bucket.
C8_SameBounds ==
    (/\ prevMark.section \in ConcreteSections
     /\ prevMark.now = disp.now)
        => \A k \in 1..Len(disp.calls) :
              disp.calls[k].bucket = prevMark.section =>
                  /\ disp.calls[k].after = prevMark.after
                  /\ disp.calls[k].before = prevMark.before

C8_Witness ==
    /\ disp.pc = "ok"
    /\ disp.section = "last2d"
    /\ prevMark.section = "last2d"
    /\ prevMark.now = disp.now
    /\ disp.now > 0
    /\ \E j, k \in 1..Len(disp.calls) :
          /\ disp.calls[j].op = "count" /\ disp.calls[j].bucket = "last2d"
          /\ disp.calls[k].op = "fetch" /\ disp.calls[k].bucket = "last2d"

\* C9: when the latest successful mark-read was "all", a rendered page
\* reports zero for every bucket and for countUnread, and that mark-read
\* went to the global primitive without an interval.
C9_AllThenZero ==
    (disp.pc = "ok" /\ prevMark.section = "all") =>
        /\ disp.countUnread = 0
        /\ \A b \in BucketSet : disp.view.counts[b] = 0
        /\ prevMark.prim = "global"
        /\ prevMark.after = Nil
        /\ prevMark.before = Nil

C9_Witness ==
    /\ disp.pc = "ok"
    /\ prevMark.section = "all"
    /\ \E i \in EntryIDs : entries[i].visible /\ entries[i].status = "read"

\* The view a request with the given section renders on a store.
RECURSIVE RunCalls(_, _, _, _, _, _)
RunCalls(store, order, dir, plan, k, view) ==
    IF k > Len(plan) THEN view
    ELSE RunCalls(store, order, dir, plan, k + 1,
                  ApplyCall(store, order, dir, view, plan[k]))

ViewOf(store, now, section, order, dir) ==
    RunCalls(store, order, dir, DisplayCalls(section, now), 1, EmptyView)

\* C10: a page rendered for an unrecognized selector carries the counts and
\* the five entry lists of a page for "all" on the same store and instant,
\* and has fetched every bucket.
C10_BogusAsAll ==
    (disp.pc = "ok" /\ disp.section \notin ConcreteSections \cup {"all"}) =>
        /\ disp.view = ViewOf(entries, disp.now, "all", disp.order, disp.dir)
        /\ \A b \in BucketSet :
              \E k \in 1..Len(disp.calls) :
                  disp.calls[k].op = "fetch" /\ disp.calls[k].bucket = b

C10_Witness ==
    /\ disp.pc = "ok"
    /\ disp.section = "bogus"
    /\ Len(disp.view.lists["today"]) = 1
    /\ Len(disp.view.lists["earlier"]) = 1

\* C11: a rendered page has issued the five counts, one per bucket, and
\* carries their results; for a concrete selector it has issued exactly
\* one fetch, with the interval of that bucket's count, and the lists of
\* the four other buckets are empty.
C11_CountsAllFetchOne ==
    disp.pc = "ok" =>
        /\ \A k \in 1..5 :
              /\ disp.calls[k].op = "count"
              /\ disp.calls[k].bucket = Buckets[k]
              /\ disp.view.counts[Buckets[k]] = Cardinality(Selected(disp.calls[k]))
        /\ \A k \in 6..Len(disp.calls) : disp.calls[k].op = "fetch"
        /\ disp.section \in ConcreteSections =>
              /\ Len(disp.calls) = 6
              /\ disp.calls[6].bucket = disp.section
              /\ \E k \in 1..5 :
                    /\ disp.calls[k].bucket = disp.section
                    /\ disp.calls[k].after = disp.calls[6].after
                    /\ disp.calls[k].before = disp.calls[6].before
              /\ Range(disp.view.lists[disp.section]) = Selected(disp.calls[6])
              /\ \A b \in BucketSet \ {disp.section} : disp.view.lists[b] = <<>>

C11_Witness ==
    /\ disp.pc = "ok"
    /\ disp.section = "last7d"
    /\ Len(disp.view.lists["last7d"]) = 1
    /\ disp.view.counts["today"] = 1
    /\ disp.view.lists["today"] = <<>>

\* C12: a failing UserByID, CountEntries or GetEntries call ends the
\* request with a server error: the failing call is the last one issued, a
\* failing user lookup precedes every count and fetch, and a page is
\* rendered only when no call failed and all planned calls were issued.
C12_FirstFailureAborts ==
    LET plan == DisplayCalls(disp.section, disp.now) IN
    /\ disp.err # "none" => disp.pc = "error"
    /\ disp.pc = "error" =>
          /\ disp.err # "none"
          /\ disp.view = EmptyView
          /\ disp.countUnread = 0
    /\ disp.err = "user" => disp.calls = <<>>
    /\ disp.err = "call" =>
          /\ Len(disp.calls) \in 1..Len(plan)
          /\ disp.calls = SubSeq(plan, 1, Len(disp.calls))
    /\ disp.pc = "ok" => disp.calls = plan

C12_Witness ==
    /\ disp.pc = "error"
    /\ disp.err = "call"
    /\ disp.section = "all"
    /\ Len(disp.calls) = 7
    /\ CountEntries(entries, Nil, Nil) = 2

\* C13: a mark-read request invokes at most one mutation primitive: the
\* global one alone for "all", the range one alone, once and with the
\* bucket's (after, before), for a concrete selector; it answers OK only
\* when a primitive was invoked and returned no error.
C13_OnePrimitive ==
    mark.pc = "done" =>
        LET now == mark.call.now
            claimed == [today   |-> [after |-> {now - 24},  before |-> {}],
                        last2d  |-> [after |-> {now - 48},  before |-> {now - 24}],
                        last7d  |-> [after |-> {now - 168}, before |-> {now - 48}],
                        last30d |-> [after |-> {now - 720}, before |-> {now - 168}],
                        earlier |-> [after |-> {},          before |-> {now - 720}]]
        IN /\ Len(mark.invoked) <= 1
           /\ mark.call.section = "all" => mark.invoked = <<"global">>
           /\ mark.call.section \in ConcreteSections =>
                 /\ mark.invoked = <<"range">>
                 /\ mark.call.after = claimed[mark.call.section].after
                 /\ mark.call.before = claimed[mark.call.section].before
           /\ mark.resp = "ok" => (Len(mark.invoked) = 1 /\ ~mark.failed)
           /\ mark.resp # "ok" => mark.flipped = {}

C13_Witness ==
    /\ mark.pc = "done"
    /\ mark.resp = "ok"
    /\ mark.call.section = "last30d"
    /\ mark.call.now > 0
    /\ mark.invoked = <<"range">>
    /\ mark.flipped # {}

\* C14 as stated: a mark-read request without a selector gets no value
\* substituted for it and is not handled as "all".
C14_NoDefault ==
    (mark.pc = "done" /\ mark.param = NoSection /\ mark.invoked # <<>>) =>
        /\ mark.call.section = NoSection
        /\ mark.invoked # <<"global">>

\* C14 amended: a mark-read request without a selector is handled as "all":
\* it invokes the global primitive, and when that succeeds no globally
\* visible entry is left unread.
C14_DefaultIsAll ==
    (mark.pc = "done" /\ mark.param = NoSection /\ mark.invoked # <<>>) =>
        /\ mark.call.section = "all"
        /\ mark.invoked = <<"global">>
        /\ mark.resp = "ok" => UnreadVisible(entries) = {}

C14_Witness ==
    /\ mark.pc = "done"
    /\ mark.param = NoSection
    /\ mark.resp = "ok"
    /\ Cardinality(mark.flipped) = 2

\* C15 as stated: a display request issues at most five count and fetch
\* calls.
C15_AtMostFive == Len(disp.calls) <= 5

\* C15 amended: the calls of a display request are issued one after another
\* in program order, at most ten of them: a rendered page has issued six
\* (five counts, one fetch) for a concrete selector and ten (five counts,
\* five fetches) for "all" or an unrecognized selector.
C15_AtMostTen ==
    LET plan == DisplayCalls(disp.section, disp.now) IN
    /\ Len(disp.calls) <= 10
    /\ disp.pc \in {"running", "ok"} =>
          /\ Len(disp.calls) <= Len(plan)
          /\ disp.calls = SubSeq(plan, 1, Len(disp.calls))
    /\ disp.pc = "ok" =>
          Len(disp.calls) = IF disp.section \in ConcreteSections THEN 6 ELSE 10

C15_Witness ==
    /\ disp.pc = "ok"
    /\ disp.section = "all"
    /\ Len(disp.calls) = 10
    /\ disp.countUnread = 2

\* The store as it was before the mark-read request that has just finished.
PreMark ==
    [i \in EntryIDs |->
        IF i \in mark.flipped
        THEN [entries[i] EXCEPT !.status = "unread"]
        ELSE entries[i]]

\* C16: a successful mark-read of a concrete bucket B flips only unread
\* entries of B's interval to read; a page for the same reference instant
\* then has count 0 and no entries for B and, for each other bucket, the
\* count and the list it had before the mutation; a page rendered at that
\* instant after the mark-read reports 0 for B.
C16_FrameOfBucket ==
    /\ (/\ mark.pc = "done"
        /\ mark.resp = "ok"
        /\ mark.call.section \in ConcreteSections) =>
          /\ \A i \in mark.flipped :
                /\ entries[i].status = "read"
                /\ InDateRange(entries[i].published_at, mark.call.after,
                               mark.call.before)
          /\ \A o \in EntryOrders, d \in Directions :
                LET pre == ViewOf(PreMark, mark.call.now, "all", o, d)
                    post == ViewOf(entries, mark.call.now, "all", o, d)
                IN /\ post.counts[mark.call.section] = 0
                   /\ post.lists[mark.call.section] = <<>>
                   /\ \A b \in BucketSet \ {mark.call.section} :
                         /\ post.counts[b] = pre.counts[b]
                         /\ post.lists[b] = pre.lists[b]
    /\ (/\ disp.pc = "ok"
        /\ prevMark.section \in ConcreteSections
        /\ prevMark.now = disp.now) =>
          /\ disp.view.counts[prevMark.section] = 0
          /\ disp.view.lists[prevMark.section] = <<>>

C16_Witness ==
    /\ disp.pc = "ok"
    /\ disp.section = "all"
    /\ prevMark.section = "last2d"
    /\ prevMark.now = disp.now
    /\ disp.view.counts["today"] = 1
    /\ Len(disp.view.lists["today"]) = 1
    /\ \E i \in EntryIDs :
          /\ entries[i].status = "read"
          /\ entries[i].visible
          /\ InDateRange(entries[i].published_at, prevMark.after, prevMark.before)

\* C17: when a mark-read of the same user takes effect during a page request
\* (in particular between two of its five count queries), each per-bucket
\* count the page reports equals that bucket's count in the store before the
\* mutation or in the store after it, and the reported countUnread lies
\* between the unread globally-visible total after the mutation and the
\* total before it, both inclusive.
C17_RacingCounts ==
    (mark.pc = "done" /\ mark.resp = "ok" /\ disp.pc = "ok") =>
        /\ \A k \in 1..Len(Buckets) :
              LET c == disp.calls[k]
              IN /\ c.op = "count"
                 /\ c.bucket = Buckets[k]
                 /\ disp.view.counts[c.bucket] \in
                        {CountEntries(PreMark, c.after, c.before),
                         CountEntries(entries, c.after, c.before)}
        /\ Cardinality(UnreadVisible(entries)) <= disp.countUnread
        /\ disp.countUnread <= Cardinality(UnreadVisible(PreMark))

\* A page whose countUnread is strictly between the two totals: the "today"
\* count was taken before the mutation and a later count after it.
C17_Witness ==
    /\ mark.pc = "done"
    /\ mark.resp = "ok"
    /\ disp.pc = "ok"
    /\ Cardinality(UnreadVisible(entries)) < disp.countUnread
    /\ disp.countUnread < Cardinality(UnreadVisible(PreMark))
    /\ disp.view.counts["today"] = CountEntries(PreMark, disp.calls[1].after,
                                                disp.calls[1].before)
    /\ \E k \in 2..Len(Buckets) :
          /\ disp.view.counts[Buckets[k]] =
                CountEntries(entries, disp.calls[k].after, disp.calls[k].before)
          /\ disp.view.counts[Buckets[k]] <
                CountEntries(PreMark, disp.calls[k].after, disp.calls[k].before)

\* C18: when a page request reads the clock at t1 and a mark-read of "today"
\* reads it at t2 >= t1, every entry the mutation flips lies in the "today"
\* interval the page used and in none of the intervals it used for last2d,
\* last7d, last30d and earlier, and no flipped entry is on any of the lists
\* the page fetched for those four buckets.
C18_TodayLaterContained ==
    (/\ mark.pc = "done"
     /\ mark.resp = "ok"
     /\ mark.call.section = "today"
     /\ disp.pc \in {"running", "ok"}
     /\ disp.now <= mark.call.now) =>
        LET plan == DisplayCalls(disp.section, disp.now)
        IN \A i \in mark.flipped :
              /\ entries[i].status = "read"
              /\ \A k \in 1..Len(plan) :
                    InDateRange(entries[i].published_at, plan[k].after,
                                plan[k].before)
                       <=> plan[k].bucket = "today"
              /\ \A b \in BucketSet \ {"today"} :
                    \A k \in 1..Len(disp.view.lists[b]) :
                       disp.view.lists[b][k] # i

\* A page of all buckets rendered at t1, then "today" marked read at a later
\* t2: one listed entry of the page's "today" is flipped, another one, older
\* than t2 - 24h, stays unread.
C18_Witness ==
    /\ mark.pc = "done"
    /\ mark.resp = "ok"
    /\ mark.call.section = "today"
    /\ disp.pc = "ok"
    /\ disp.section = "all"
    /\ disp.now < mark.call.now
    /\ \E k \in 1..Len(disp.view.lists["today"]) :
          disp.view.lists["today"][k] \in mark.flipped
    /\ \E k \in 1..Len(disp.view.lists["today"]) :
          entries[disp.view.lists["today"][k]].status = "unread"

====
